---- MODULE Spec2Model ----
(***************************************************************************)
(* TrelloBoardMaintainer: a one-shot job that archives or deletes stale    *)
(* cards and re-orders cards by the similarity written in their            *)
(* description.  The model follows src/unnamed/part_000 (the version with  *)
(* the delete group); src/main.go is the older version with the same       *)
(* card-level functions and no delete group.                               *)
(*                                                                         *)
(* Time is counted in whole hours since the Unix epoch.  A Go pointer is   *)
(* a sequence of length 0 (nil) or 1 (the value pointed to).  float64      *)
(* values of the reorder pass are exact fixed-point numbers: a similarity  *)
(* s is the integer s*Scale and a position p the integer p*Scale*1e-7.     *)
(***************************************************************************)
EXTENDS Integers, Sequences, FiniteSets, TLC

\* ------------------------------------------------------------- bounds ---
\* longest action history a fetch returns
MaxActions == 2
\* longest card description
MaxDescLen == 4
\* how many times the scheduled job runs over the same board
MaxRuns == 2
\* how many list ids the three environment variables hold together
MaxIds == 2

\* ---------------------------------------------------------- constants ---
\* time.UnixMilli(0)
UnixEpoch == 0
\* default of CARD_INACTIVITY_THRESHOLD_HOURS
CardInactivityThresholdHours == 336
\* the hour time.Now() returns in the list task
NowHours == 498000

Nil == <<>>
Some(v) == <<v>>
IsNil(p) == p = <<>>
Deref(p) == p[1]

ListIds == {"L1", "L2"}
CardIds == {"c1", "c2", "c3"}
\* the list each card of the board is in
ListOf == [c \in CardIds |-> IF c = "c3" THEN "L2" ELSE "L1"]

GroupOrder == <<"archive", "delete", "reorder">>
GroupIdx == 1..3

\* staleCardActionEnum
staleCardActionDelete == "Delete"
staleCardActionArchive == "Archive"

\* the stale action main passes to checkListForStaleCards for a group
StaleActionAlwaysArchive(g) == staleCardActionArchive
StaleActionOf(g) ==
  IF GroupOrder[g] = "archive" THEN staleCardActionArchive ELSE staleCardActionDelete

\* --------------------------------------------------- action histories ---
QualifyingTypes == {"createCard", "addMemberToCard", "updateCard_idList", "commentCard"}
ActionTypes == QualifyingTypes \cup {"updateCard_pos"}

DidCreateCard(a) == a.type = "createCard"
DidChangeCardMembership(a) == a.type = "addMemberToCard"
DidChangeListForCard(a) == a.type = "updateCard_idList"
DidCommentCard(a) == a.type = "commentCard"

\* the dates an action of the board can carry (all later than the epoch)
ActionDates == {NowHours - 400, NowHours - 337, NowHours - 336}
\* card.DateLastActivity: absent, or a date
LastActivityChoices == {Nil, Some(NowHours - 400), Some(NowHours - 10)}

Action(c, ty, d) == [card |-> c, type |-> ty, date |-> d]
\* actions a fetch for card c can return: any kind for the card itself, and
\* actions of another card (the filter of the board is not trusted)
ActionsAbout(c) ==
  {Action(c, ty, d) : ty \in ActionTypes, d \in ActionDates}
    \cup {Action(o, "commentCard", d) : o \in {"c2"} \ {c}, d \in ActionDates}

SeqsUpTo(S, n) == UNION {[1..k -> S] : k \in 0..n}

\* the loop body of lines 70-87: the running maximum after one action
ScanStepSkipsNothing(latest, a, cardId) ==
  IF latest < a.date THEN a.date ELSE latest
ScanStep(latest, a, cardId) ==
  IF a.card # cardId THEN latest
  ELSE IF ~(DidCreateCard(a) \/ DidChangeCardMembership(a)
            \/ DidChangeListForCard(a) \/ DidCommentCard(a)) THEN latest
  ELSE IF latest < a.date THEN a.date ELSE latest

RECURSIVE ScanActions(_, _, _)
ScanActions(actions, cardId, latest) ==
  IF actions = <<>> THEN latest
  ELSE ScanActions(Tail(actions), cardId, ScanStep(latest, Head(actions), cardId))

\* lines 47 and 69-91: the pointer to the resolved time; Nil when line 90
\* dereferences an absent DateLastActivity (a run-time panic)
LatestActionTimeKeepsEpoch(card, actions) ==
  IF Len(actions) > 0 THEN Some(ScanActions(actions, card.id, UnixEpoch))
  ELSE IF IsNil(card.dateLastActivity) THEN Nil ELSE Some(UnixEpoch)
LatestActionTime(card, actions) ==
  IF Len(actions) > 0 THEN Some(ScanActions(actions, card.id, UnixEpoch))
  ELSE card.dateLastActivity

\* line 54: the list's history is asked for when the card's own is empty
NeedsListQueryAlways(actions) == TRUE
NeedsListQuery(actions) == Len(actions) = 0

\* lines 55-57: the arguments of list.GetActions
ListActionsArgs(card) == [filter |-> "createCard", idModels |-> card.id]

\* lines 49-91 for a card whose own history is own and whose list reports
\* lst for it: the time the staleness decision uses
ResolvedFor(card, own, lst) ==
  LatestActionTime(card, IF NeedsListQuery(own) THEN lst ELSE own)

\* lines 93-94
IsStaleAtOrOver(now, latest, inactivityTimeSpan) == now - latest >= inactivityTimeSpan
IsStale(now, latest, inactivityTimeSpan) == now - latest > inactivityTimeSpan

\* ------------------------------------------------------ reorder pass ---
\* the characters a description is made of
Alphabet == {"0", "1", "5", ".", "a", " ", "\t"}
Digits == {"0", "1", "5"}
DigitVal(ch) == IF ch = "5" THEN 5 ELSE IF ch = "1" THEN 1 ELSE 0
Descs == SeqsUpTo(Alphabet, MaxDescLen)

RECURSIVE Pow10(_)
Pow10(n) == IF n = 0 THEN 1 ELSE 10 * Pow10(n - 1)
\* fixed-point unit: 1.0 is Scale (every number a description of at most
\* MaxDescLen characters can hold after a space is a multiple of 1/Scale)
Scale == Pow10(MaxDescLen - 2)
\* 1e-2 of line 130
Tolerance == Scale \div 100
Abs(x) == IF x < 0 THEN -x ELSE x

\* strings.LastIndex: the 0-based index of the last ch in s, or -1
LastIndexIsFirstIndex(s, ch) ==
  IF \E i \in 1..Len(s) : s[i] = ch
  THEN (CHOOSE i \in 1..Len(s) : s[i] = ch /\ \A j \in 1..(i - 1) : s[j] # ch) - 1
  ELSE -1
LastIndex(s, ch) ==
  IF \E i \in 1..Len(s) : s[i] = ch
  THEN (CHOOSE i \in 1..Len(s) : s[i] = ch /\ \A j \in (i + 1)..Len(s) : s[j] # ch) - 1
  ELSE -1

RECURSIVE DigitsValue(_)
DigitsValue(ds) ==
  IF ds = <<>> THEN 0
  ELSE 10 * DigitsValue(SubSeq(ds, 1, Len(ds) - 1)) + DigitVal(ds[Len(ds)])

\* strconv.ParseFloat on the characters of Alphabet: Nil for an error, else
\* the number times Scale
ParseFloat(tok) ==
  LET dots == {i \in 1..Len(tok) : tok[i] = "."}
      digs == {i \in 1..Len(tok) : tok[i] \in Digits}
  IN IF Len(tok) = 0 \/ dots \cup digs # 1..Len(tok)
        \/ Cardinality(dots) > 1 \/ digs = {}
     THEN Nil
     ELSE LET dot == IF dots = {} THEN Len(tok) + 1 ELSE CHOOSE i \in dots : TRUE
              int == SubSeq(tok, 1, dot - 1)
              frac == SubSeq(tok, dot + 1, Len(tok))
          IN Some(DigitsValue(int) * Scale
                  + DigitsValue(frac) * (Scale \div Pow10(Len(frac))))

\* lines 107-122
tryExtractSimilarityAfterAnyWhitespace(card) ==
  LET ws == {i \in 1..Len(card.desc) : card.desc[i] \in {" ", "\t"}}
  IN IF ws = {} THEN Nil
     ELSE ParseFloat(SubSeq(card.desc, (CHOOSE i \in ws : \A j \in ws : j <= i) + 1,
                            Len(card.desc)))
tryExtractSimilarity(card) ==
  LET spaceDescLastIdx == LastIndex(card.desc, " ")
  IN IF spaceDescLastIdx = -1 THEN Nil
     ELSE ParseFloat(SubSeq(card.desc, spaceDescLastIdx + 2, Len(card.desc)))

\* lines 128-130: whether the position is off by more than the tolerance
PosIsOffAtTolerance(pos, cardSim) == Abs(Scale - pos - cardSim) >= Tolerance
PosIsOff(pos, cardSim) == Abs(Scale - pos - cardSim) > Tolerance

\* line 131
NewPosKeepsSim(cardSim) == cardSim
NewPos(cardSim) == Scale - cardSim

\* lines 126-131: Nil when SetPos is not called, else the position passed to it
SetPosArgumentIsDiff(card) ==
  LET cardSim == tryExtractSimilarity(card)
  IN IF ~IsNil(cardSim) /\ PosIsOff(card.pos, Deref(cardSim))
     THEN Some(Scale - card.pos - Deref(cardSim))
     ELSE Nil
SetPosArgument(card) ==
  LET cardSim == tryExtractSimilarity(card)
  IN IF ~IsNil(cardSim) /\ PosIsOff(card.pos, Deref(cardSim))
     THEN Some(NewPos(Deref(cardSim)))
     ELSE Nil

\* -------------------------------------------------------------- state ---
VARIABLES
  cfg,        \* the list ids of TRELLO_ARCHIVE_LISTS, _DELETE_LISTS, _REORDER_LISTS
  board,      \* the remote board: per card its fields and its action histories
  run,        \* which run of the scheduled job this is
  proc,       \* the process: "running", "exit0" or "exit2"
  mainPc,     \* where the main goroutine is: "check", "wait", "logDone", "returned"
  mainGroup,  \* the group main is at (an index of GroupOrder)
  wg,         \* the WaitGroup of processLists, per group
  listTask,   \* the list goroutines, by <<group, index>>
  cardTask,   \* the card goroutines, by <<group, index, card>>
  mutations,  \* the Archive, Delete and SetPos calls made so far
  panics      \* the goroutines that panicked, with the call that failed

vars == <<cfg, board, run, proc, mainPc, mainGroup, wg, listTask, cardTask,
          mutations, panics>>

FetchCalls == {"GetList", "List.GetCards", "Card.GetActions", "List.GetActions"}

BoardCard(desc, pos, dla, acts, listActs) ==
  [desc |-> desc, pos |-> pos, dateLastActivity |-> dla, closed |-> FALSE,
   deleted |-> FALSE, actions |-> acts, listActions |-> listActs]

\* the trello.Card a list fetch returns for card c
FetchedCard(c) ==
  [id |-> c, desc |-> board[c].desc, pos |-> board[c].pos,
   dateLastActivity |-> board[c].dateLastActivity]

\* List.GetCards: the open cards of the list
OpenCardsOfAnyList(listId) ==
  {c \in CardIds : ~board[c].closed /\ ~board[c].deleted}
OpenCards(listId) ==
  {c \in CardIds : ListOf[c] = listId /\ ~board[c].closed /\ ~board[c].deleted}

NewCardTask(g, c) ==
  [pc |-> IF GroupOrder[g] = "reorder" THEN "CheckOrder" ELSE "GetActions",
   card |-> FetchedCard(c), now |-> NowHours, actions |-> <<>>,
   listQueried |-> FALSE, listArgs |-> Nil, latestActionTime |-> Nil,
   invoked |-> "none"]

\* line 189: time.Now() is one of the hours the run spans; the list
\* goroutine of a reorder group reads no clock (lines 222-238)
NowChoices(g) ==
  IF GroupOrder[g] = "reorder" THEN {NowHours} ELSE {NowHours, NowHours + 1}
\* the clock does not run backwards: the hours read so far
NowsRead ==
  {Deref(listTask[lt].now) :
     lt \in {x \in DOMAIN listTask :
               GroupOrder[x[1]] # "reorder" /\ listTask[x].now # Nil}}

ListOfTask(t) == <<t[1], t[2]>>
CardTasksOf(lt) == {t \in DOMAIN cardTask : ListOfTask(t) = lt}
ListTasksOf(g) == {lt \in DOMAIN listTask : lt[1] = g}
Finished(t) == cardTask[t].pc \in {"done", "panicked"}

\* a successful Archive, Delete or SetPos on the board
Applied(op, c, arg) ==
  CASE op = "Archive" -> [board EXCEPT ![c].closed = TRUE]
    [] op = "Delete" -> [board EXCEPT ![c].deleted = TRUE]
    [] op = "SetPos" -> [board EXCEPT ![c].pos = arg]

\* card.Archive(), card.Delete(), card.SetPos(): the call succeeds or returns
\* an error, which the caller drops
Mutate(t, op, arg) ==
  \E ok \in BOOLEAN :
    /\ mutations' = mutations \cup
         {[run |-> run, task |-> t, card |-> t[3], op |-> op, arg |-> arg, ok |-> ok]}
    /\ board' = IF ok THEN Applied(op, t[3], arg) ELSE board

\* log.Panicf (or a nil dereference) in a card goroutine: the deferred
\* wg.Done() of line 46 / 125 runs, then the goroutine is gone
CardPanics(t, cause) ==
  /\ cardTask' = [cardTask EXCEPT ![t].pc = "panicked"]
  /\ listTask' = [listTask EXCEPT ![ListOfTask(t)].cardWg = @ - 1]
  /\ panics' = panics \cup {[task |-> t, cause |-> cause, group |-> t[1]]}

\* log.Panicf in a list goroutine: nothing is deferred there
ListPanics(lt, cause) ==
  /\ listTask' = [listTask EXCEPT ![lt].pc = "panicked"]
  /\ panics' = panics \cup {[task |-> lt, cause |-> cause, group |-> lt[1]]}

\* ------------------------------------------------------ main goroutine ---
AfterGroup(g) ==
  IF g < Len(GroupOrder)
  THEN mainGroup' = g + 1 /\ mainPc' = "check"
  ELSE mainGroup' = g /\ mainPc' = "logDone"

\* lines 204-205, 213-214, 241-242 and 150-160: a group with no id is
\* skipped; else processLists adds N to wg and starts one goroutine per id
processLists(g) ==
  /\ proc = "running" /\ mainPc = "check" /\ mainGroup = g
  /\ IF Len(cfg[g]) > 0
     THEN /\ wg' = [wg EXCEPT ![g] = Len(cfg[g])]
          /\ listTask' = listTask @@
               [lt \in {<<g, i>> : i \in 1..Len(cfg[g])} |->
                  [pc |-> "fetchList", listId |-> cfg[g][lt[2]], cardWg |-> 0,
                   cards |-> {}, now |-> Nil]]
          /\ mainPc' = "wait"
          /\ UNCHANGED mainGroup
     ELSE /\ AfterGroup(g)
          /\ UNCHANGED <<wg, listTask>>
  /\ UNCHANGED <<cfg, board, run, proc, cardTask, mutations, panics>>

\* line 161: wg.Wait() returns
processListsMayReturnAtOnce(g) == TRUE
processListsMayReturn(g) == wg[g] = 0

\* lines 161-163
processListsReturn(g) ==
  /\ proc = "running" /\ mainPc = "wait" /\ mainGroup = g
  /\ processListsMayReturn(g)
  /\ AfterGroup(g)
  /\ UNCHANGED <<cfg, board, run, proc, wg, listTask, cardTask, mutations, panics>>

\* line 248: log.Println("Done"), and main returns
mainLogDone ==
  /\ proc = "running" /\ mainPc = "logDone"
  /\ mainPc' = "returned"
  /\ UNCHANGED <<cfg, board, run, proc, mainGroup, wg, listTask, cardTask,
                 mutations, panics>>

\* the runtime after main returned: exit status 0, unless a goroutine is
\* panicking, in which case main is parked and the panic ends the process
mainExit ==
  /\ proc = "running" /\ mainPc = "returned" /\ panics = {}
  /\ proc' = "exit0"
  /\ UNCHANGED <<cfg, board, run, mainPc, mainGroup, wg, listTask, cardTask,
                 mutations, panics>>

\* the runtime ends the process for an unrecovered panic: exit status 2.
\* Until then the other goroutines keep running.
panicExit ==
  /\ proc = "running" /\ panics # {}
  /\ proc' = "exit2"
  /\ UNCHANGED <<cfg, board, run, mainPc, mainGroup, wg, listTask, cardTask,
                 mutations, panics>>

\* ----------------------------------------------------- list goroutines ---
\* lines 138-144, called at lines 181 and 223
fetchList(lt) ==
  /\ proc = "running" /\ lt \in DOMAIN listTask /\ listTask[lt].pc = "fetchList"
  /\ \/ /\ listTask' = [listTask EXCEPT ![lt].pc = "GetCards"]
        /\ UNCHANGED panics
     \/ ListPanics(lt, "GetList")
  /\ UNCHANGED <<cfg, board, run, proc, mainPc, mainGroup, wg, cardTask, mutations>>

\* lines 183-198 and 225-235: the cards are fetched, now is read, the card
\* WaitGroup is set to their number and one goroutine per card is started
listGetCards(lt) ==
  /\ proc = "running" /\ lt \in DOMAIN listTask /\ listTask[lt].pc = "GetCards"
  /\ \/ \E now \in NowChoices(lt[1]) :
          LET cards == OpenCards(listTask[lt].listId)
          IN /\ GroupOrder[lt[1]] # "reorder" => \A read \in NowsRead : read <= now
             /\ listTask' = [listTask EXCEPT ![lt].pc = "wait",
                                             ![lt].cards = cards,
                                             ![lt].now =
                                               IF GroupOrder[lt[1]] = "reorder"
                                               THEN Nil ELSE Some(now),
                                             ![lt].cardWg = Cardinality(cards)]
             /\ cardTask' = [t \in {<<lt[1], lt[2], c>> : c \in cards} |->
                               [NewCardTask(lt[1], t[3]) EXCEPT !.now = now]]
                             @@ cardTask
             /\ UNCHANGED panics
     \/ /\ ListPanics(lt, "List.GetCards")
        /\ UNCHANGED cardTask
  /\ UNCHANGED <<cfg, board, run, proc, mainPc, mainGroup, wg, mutations>>

\* lines 199 and 236: the card WaitGroup's Wait() returns
listMayReportAtOnce(lt) == TRUE
listMayReport(lt) == listTask[lt].cardWg = 0

\* lines 199-200 and 236-237
listDone(lt) ==
  /\ proc = "running" /\ lt \in DOMAIN listTask /\ listTask[lt].pc = "wait"
  /\ listMayReport(lt)
  /\ listTask' = [listTask EXCEPT ![lt].pc = "done"]
  /\ wg' = [wg EXCEPT ![lt[1]] = @ - 1]
  /\ UNCHANGED <<cfg, board, run, proc, mainPc, mainGroup, cardTask, mutations, panics>>

\* ----------------------------------------------------- card goroutines ---
\* lines 49-54
cardGetActions(t) ==
  /\ proc = "running" /\ t \in DOMAIN cardTask /\ cardTask[t].pc = "GetActions"
  /\ \/ LET actions == board[t[3]].actions
        IN /\ cardTask' = [cardTask EXCEPT
                ![t].actions = actions,
                ![t].pc = IF NeedsListQuery(actions) THEN "ListGetActions" ELSE "Evaluate"]
           /\ UNCHANGED <<listTask, panics>>
     \/ CardPanics(t, "Card.GetActions")
  /\ UNCHANGED <<cfg, board, run, proc, mainPc, mainGroup, wg, mutations>>

\* lines 58-65
listGetActions(t) ==
  /\ proc = "running" /\ t \in DOMAIN cardTask /\ cardTask[t].pc = "ListGetActions"
  /\ \/ LET args == ListActionsArgs(cardTask[t].card)
        IN /\ cardTask' = [cardTask EXCEPT
                ![t].actions = board[args.idModels].listActions,
                ![t].listQueried = TRUE,
                ![t].listArgs = Some(args),
                ![t].pc = "Evaluate"]
        /\ UNCHANGED <<listTask, panics>>
     \/ CardPanics(t, "List.GetActions")
  /\ UNCHANGED <<cfg, board, run, proc, mainPc, mainGroup, wg, mutations>>

\* lines 96-103: a failing Archive or Delete goes on like a successful one
staleActionCallPanicsOnError(t, latest) ==
  \E ok \in BOOLEAN :
    /\ mutations' = mutations \cup
         {[run |-> run, task |-> t, card |-> t[3], op |-> StaleActionOf(t[1]),
           arg |-> 0, ok |-> ok]}
    /\ board' = IF ok THEN Applied(StaleActionOf(t[1]), t[3], 0) ELSE board
    /\ IF ok
       THEN /\ cardTask' = [cardTask EXCEPT ![t].latestActionTime = latest,
                                            ![t].invoked = StaleActionOf(t[1]),
                                            ![t].pc = "return"]
            /\ UNCHANGED <<listTask, panics>>
       ELSE CardPanics(t, StaleActionOf(t[1]))
staleActionCall(t, latest) ==
  /\ Mutate(t, StaleActionOf(t[1]), 0)
  /\ cardTask' = [cardTask EXCEPT ![t].latestActionTime = latest,
                                  ![t].invoked = StaleActionOf(t[1]),
                                  ![t].pc = "return"]
  /\ UNCHANGED <<listTask, panics>>

\* lines 69-104: the activity is resolved and the stale action is called
checkCardForStaleness(t) ==
  /\ proc = "running" /\ t \in DOMAIN cardTask /\ cardTask[t].pc = "Evaluate"
  /\ LET latest == LatestActionTime(cardTask[t].card, cardTask[t].actions)
     IN IF IsNil(latest)
        THEN /\ CardPanics(t, "nil dereference")
             /\ UNCHANGED <<board, mutations>>
        ELSE IF IsStale(cardTask[t].now, Deref(latest), CardInactivityThresholdHours)
        THEN staleActionCall(t, latest)
        ELSE /\ cardTask' = [cardTask EXCEPT ![t].latestActionTime = latest,
                                             ![t].pc = "return"]
             /\ UNCHANGED <<board, mutations, listTask, panics>>
  /\ UNCHANGED <<cfg, run, proc, mainPc, mainGroup, wg>>

\* lines 126-135
checkCardForOrder(t) ==
  /\ proc = "running" /\ t \in DOMAIN cardTask /\ cardTask[t].pc = "CheckOrder"
  /\ LET newPos == SetPosArgument(cardTask[t].card)
     IN IF IsNil(newPos)
        THEN /\ cardTask' = [cardTask EXCEPT ![t].pc = "return"]
             /\ UNCHANGED <<board, mutations>>
        ELSE /\ Mutate(t, "SetPos", Deref(newPos))
             /\ cardTask' = [cardTask EXCEPT ![t].invoked = "SetPos",
                                             ![t].pc = "return"]
  /\ UNCHANGED <<cfg, run, proc, mainPc, mainGroup, wg, listTask, panics>>

\* lines 46 and 125: the deferred wg.Done() when the function returns
cardReturn(t) ==
  /\ proc = "running" /\ t \in DOMAIN cardTask /\ cardTask[t].pc = "return"
  /\ cardTask' = [cardTask EXCEPT ![t].pc = "done"]
  /\ listTask' = [listTask EXCEPT ![ListOfTask(t)].cardWg = @ - 1]
  /\ UNCHANGED <<cfg, board, run, proc, mainPc, mainGroup, wg, mutations, panics>>

\* ------------------------------------------------- the run as a whole ---
EmptyHistory == <<>>
\* a board for the whole run: c1 was commented on 400h ago, c2 has only the
\* createCard action the list reports, 336h old, c3 has no action at all
RunBoards ==
  {[c \in CardIds |->
     CASE c = "c1" -> BoardCard(<<"a", " ", ".", "5">>, 0, Some(NowHours - 10),
                        <<Action("c1", "commentCard", NowHours - 400)>>, EmptyHistory)
       [] c = "c2" -> BoardCard(<<"a">>, Scale, Some(NowHours - 10), EmptyHistory,
                        <<Action("c2", "createCard", NowHours - 336)>>)
       [] c = "c3" -> BoardCard(<<" ", "5">>, Scale, dla, EmptyHistory, EmptyHistory)]
   : dla \in {Nil, Some(NowHours - 400)}}

\* the comma-separated ids of one environment variable, split
IdLists == {<<>>, <<"L1">>, <<"L2">>, <<"L1", "L2">>, <<"L2", "L2">>}
Configs ==
  {c \in [GroupIdx -> IdLists] : Len(c[1]) + Len(c[2]) + Len(c[3]) <= MaxIds}

Init ==
  /\ cfg \in Configs
  /\ board \in RunBoards
  /\ run = 1
  /\ proc = "running"
  /\ mainPc = "check"
  /\ mainGroup = 1
  /\ wg = [g \in GroupIdx |-> 0]
  /\ listTask = <<>>
  /\ cardTask = <<>>
  /\ mutations = {}
  /\ panics = {}

Next ==
  \/ \E g \in GroupIdx : processLists(g)
  \/ \E g \in GroupIdx : processListsReturn(g)
  \/ mainLogDone
  \/ mainExit
  \/ panicExit
  \/ \E lt \in DOMAIN listTask : fetchList(lt)
  \/ \E lt \in DOMAIN listTask : listGetCards(lt)
  \/ \E lt \in DOMAIN listTask : listDone(lt)
  \/ \E t \in DOMAIN cardTask : cardGetActions(t)
  \/ \E t \in DOMAIN cardTask : listGetActions(t)
  \/ \E t \in DOMAIN cardTask : checkCardForStaleness(t)
  \/ \E t \in DOMAIN cardTask : checkCardForOrder(t)
  \/ \E t \in DOMAIN cardTask : cardReturn(t)

Spec == Init /\ [][Next]_vars

\* ---------------------------------- one card under checkCardForStaleness ---
\* the histories the board holds for the card: its own, and what the list
\* reports for it (read only when its own history is empty)
Histories(c) ==
  {<<own, lst>> : own \in SeqsUpTo(ActionsAbout(c), MaxActions) \ {<<>>},
                  lst \in {<<>>, <<Action(c, "createCard", NowHours - 336)>>}}
    \cup {<<<<>>, lst>> : lst \in SeqsUpTo(ActionsAbout(c), MaxActions)}

\* the state when the list goroutine of list id (the only id of group g) has
\* started the goroutine of its only open card c and waits for it
OneCardStarted(g, id, c) ==
  /\ cfg = [gi \in GroupIdx |-> IF gi = g THEN <<id>> ELSE <<>>]
  /\ run = 1
  /\ proc = "running"
  /\ mainPc = "wait"
  /\ mainGroup = g
  /\ wg = [gi \in GroupIdx |-> IF gi = g THEN 1 ELSE 0]
  /\ listTask = (<<g, 1>> :> [pc |-> "wait", listId |-> id, cardWg |-> 1,
                              cards |-> {c},
                              now |-> IF GroupOrder[g] = "reorder"
                                      THEN Nil ELSE Some(NowHours)])
  /\ cardTask = (<<g, 1, c>> :> NewCardTask(g, c))
  /\ mutations = {}
  /\ panics = {}

ClosedCard == [BoardCard(<<>>, 0, Nil, <<>>, <<>>) EXCEPT !.closed = TRUE]

InitStale ==
  /\ \E h \in Histories("c1"), dla \in LastActivityChoices :
       board = [c \in CardIds |->
                  IF c = "c1" THEN BoardCard(<<>>, 0, dla, h[1], h[2]) ELSE ClosedCard]
  /\ \E g \in {1, 2} : OneCardStarted(g, "L1", "c1")

NextStale ==
  \/ \E t \in DOMAIN cardTask : cardGetActions(t)
  \/ \E t \in DOMAIN cardTask : listGetActions(t)
  \/ \E t \in DOMAIN cardTask : checkCardForStaleness(t)
  \/ \E t \in DOMAIN cardTask : cardReturn(t)
  \/ panicExit

SpecStale == InitStale /\ [][NextStale]_vars

\* -------------------------------------- one card under checkCardForOrder ---
PosChoices ==
  {0, Scale \div 2 - Tolerance - 1, Scale \div 2 - Tolerance, Scale \div 2,
   Scale \div 2 + Tolerance, Scale \div 2 + Tolerance + 1, Scale}

InitOrder ==
  /\ \E desc \in Descs, pos \in PosChoices :
       board = [c \in CardIds |->
                  IF c = "c3" THEN BoardCard(desc, pos, Nil, <<>>, <<>>) ELSE ClosedCard]
  /\ OneCardStarted(3, "L2", "c3")

\* the scheduled job runs again over the board as the last run left it: the
\* list goroutine fetches the cards anew and starts their goroutines
runAgain ==
  /\ run < MaxRuns
  /\ \A t \in DOMAIN cardTask : cardTask[t].pc = "done"
  /\ run' = run + 1
  /\ cardTask' = [t \in DOMAIN cardTask |-> NewCardTask(t[1], t[3])]
  /\ listTask' = [lt \in DOMAIN listTask |->
                    [listTask[lt] EXCEPT !.cardWg = Cardinality(CardTasksOf(lt))]]
  /\ UNCHANGED <<cfg, board, proc, mainPc, mainGroup, wg, mutations, panics>>

NextOrder ==
  \/ \E t \in DOMAIN cardTask : checkCardForOrder(t)
  \/ \E t \in DOMAIN cardTask : cardReturn(t)
  \/ runAgain

SpecOrder == InitOrder /\ [][NextOrder]_vars

\* ------------------------------------------------------------- claims ---
\* the card goroutine t of a stale pass is past lines 69-104
Evaluated(t) ==
  GroupOrder[t[1]] # "reorder" /\ cardTask[t].pc \in {"return", "done"}

\* the indexes of the fetched actions that survive the filter: they belong
\* to the card and are of a qualifying kind
Survivors(t) ==
  {i \in DOMAIN cardTask[t].actions :
     /\ cardTask[t].actions[i].card = cardTask[t].card.id
     /\ cardTask[t].actions[i].type \in QualifyingTypes}

SurvivorDates(t) == {cardTask[t].actions[i].date : i \in Survivors(t)}
MaxOf(S) == CHOOSE x \in S : \A y \in S : y <= x

\* the calls goroutine t made in this run
CallsOf(t) == {m \in mutations : m.task = t /\ m.run = run}

\* C1: whenever no fetched action survives the filter, the time the
\* staleness decision uses is the card's DateLastActivity, for every card
\* that has one (the epoch is never the final input).
C1_FallbackWhenNothingSurvives ==
  \A t \in DOMAIN cardTask :
    (Evaluated(t) /\ Survivors(t) = {} /\ ~IsNil(cardTask[t].card.dateLastActivity))
      => cardTask[t].latestActionTime = cardTask[t].card.dateLastActivity

\* C2: for a card with at least one qualifying action of its own among the
\* fetched actions, the resolved time is the maximum date of those actions;
\* an action of another card never contributes.
C2_LatestIsMaxOfOwnQualifying ==
  \A t \in DOMAIN cardTask :
    (Evaluated(t) /\ Survivors(t) # {})
      => cardTask[t].latestActionTime = Some(MaxOf(SurvivorDates(t)))

\* C2's case: an action of another card carries a later date than every
\* qualifying action of the card, and the card was evaluated
C2_Witness ==
  \E t \in DOMAIN cardTask :
    /\ Evaluated(t) /\ Survivors(t) # {}
    /\ \E j \in DOMAIN cardTask[t].actions :
         /\ cardTask[t].actions[j].card # cardTask[t].card.id
         /\ cardTask[t].actions[j].date > MaxOf(SurvivorDates(t))

\* C3: when the card's own fetch and the list's createCard fetch both
\* return no action, the resolved time is the card's DateLastActivity.
C3_NoActionsUsesLastActivity ==
  \A t \in DOMAIN cardTask :
    (Evaluated(t) /\ cardTask[t].listQueried /\ cardTask[t].actions = <<>>)
      => /\ ~IsNil(cardTask[t].latestActionTime)
         /\ cardTask[t].latestActionTime = cardTask[t].card.dateLastActivity

C3_Witness ==
  \E t \in DOMAIN cardTask :
    /\ cardTask[t].pc = "done" /\ GroupOrder[t[1]] # "reorder"
    /\ cardTask[t].listQueried /\ cardTask[t].actions = <<>>
    /\ cardTask[t].latestActionTime = Some(NowHours - 10)

\* C4: the configured stale action is called on an evaluated card if and
\* only if now - resolved > threshold; at elapsed = threshold or below no
\* call is made; a card whose only action is a comment 400h old is acted on
\* under the 336h threshold.
C4_StaleActionIffOverThreshold ==
  \A t \in DOMAIN cardTask :
    Evaluated(t) =>
      LET elapsed == cardTask[t].now - cardTask[t].latestActionTime[1]
          configured == IF t[1] = 1 THEN "Archive" ELSE "Delete"
      IN /\ elapsed > CardInactivityThresholdHours
              => /\ Cardinality(CallsOf(t)) = 1
                 /\ \A m \in CallsOf(t) : m.op = configured /\ m.card = t[3]
         /\ elapsed <= CardInactivityThresholdHours => CallsOf(t) = {}
         /\ cardTask[t].actions
              = <<Action(t[3], "commentCard", cardTask[t].now - 400)>>
              => CallsOf(t) # {}

C4_Witness ==
  \E t \in DOMAIN cardTask :
    /\ Evaluated(t)
    /\ cardTask[t].actions = <<Action(t[3], "commentCard", cardTask[t].now - 400)>>
    /\ \E m \in CallsOf(t) : m.op \in {"Archive", "Delete"}

\* every list goroutine of group g was started and has called wg.Done(),
\* and every card goroutine they started has ended
GroupFinished(g) ==
  /\ Cardinality(ListTasksOf(g)) = Len(cfg[g])
  /\ \A lt \in ListTasksOf(g) :
       /\ listTask[lt].pc = "done"
       /\ \A t \in CardTasksOf(lt) : Finished(t)

\* something of group g has started: a list goroutine, a card goroutine or
\* a call on a card
GroupStarted(g) ==
  \/ ListTasksOf(g) # {}
  \/ \E t \in DOMAIN cardTask : t[1] = g
  \/ \E m \in mutations : m.task[1] = g

\* C5: the groups run in the order archive, delete, reorder: nothing of a
\* later group starts before every card goroutine of every list of each
\* earlier group has ended.
C5_GroupsRunInOrder ==
  \A g1 \in GroupIdx, g2 \in GroupIdx :
    (g1 < g2 /\ GroupStarted(g2)) => GroupFinished(g1)

C5_Witness ==
  /\ \E t \in DOMAIN cardTask : t[1] = 2 /\ cardTask[t].pc = "GetActions"
  /\ \E m \in mutations : m.task[1] = 1
  /\ Len(cfg[1]) > 0

\* main is past processLists for the (non-empty) group g
GroupReportedDone(g) ==
  /\ Len(cfg[g]) > 0
  /\ \/ mainGroup > g
     \/ mainGroup = g /\ mainPc \in {"logDone", "returned"}

\* C6: a list goroutine calls wg.Done() only after every card goroutine it
\* started has ended, and processLists returns only after every list
\* goroutine of the group has called wg.Done().
C6_JoinBeforeDone ==
  /\ \A lt \in DOMAIN listTask :
       listTask[lt].pc = "done" => \A t \in CardTasksOf(lt) : Finished(t)
  /\ \A g \in GroupIdx : GroupReportedDone(g) => GroupFinished(g)

C6_Witness ==
  \E g \in GroupIdx :
    /\ GroupReportedDone(g)
    /\ \E lt \in ListTasksOf(g) : Cardinality(CardTasksOf(lt)) = 2

\* C7: once a fetch has failed, the run does not reach its normal end, no
\* later group is started, and the process does not end with status 0.
C7_FetchFailureAbortsRun ==
  \A p \in panics :
    p.cause \in FetchCalls
      => /\ mainPc \notin {"logDone", "returned"}
         /\ \A g \in GroupIdx : g > p.group => ~GroupStarted(g)
         /\ proc # "exit0"

SetPosCalls(c) == {m \in mutations : m.op = "SetPos" /\ m.card = c}

C10_SetPosOnlyBeyondTolerance ==
  \A t \in DOMAIN cardTask :
    (GroupOrder[t[1]] = "reorder" /\ cardTask[t].pc \in {"return", "done"})
      => LET sim == tryExtractSimilarity(cardTask[t].card)
             off == /\ sim # Nil
                    /\ Abs(Scale - cardTask[t].card.pos - sim[1]) > Tolerance
         IN /\ off => \E m \in CallsOf(t) : m.op = "SetPos" /\ m.card = t[3]
            /\ ~off => CallsOf(t) = {}

\* C10's case: a card whose position is off by exactly the tolerance was
\* passed over
C10_Witness ==
  \E t \in DOMAIN cardTask :
    /\ GroupOrder[t[1]] = "reorder" /\ cardTask[t].pc = "done"
    /\ tryExtractSimilarity(cardTask[t].card) # Nil
    /\ Abs(Scale - cardTask[t].card.pos
             - tryExtractSimilarity(cardTask[t].card)[1]) = Tolerance
    /\ CallsOf(t) = {}

\* the reorder goroutine t is past lines 126-134
Ordered(t) ==
  GroupOrder[t[1]] = "reorder" /\ cardTask[t].pc \in {"return", "done"}

\* similarities of [0, 1] to compare a written position with
SimSamples == {0, 1, Scale \div 10, Scale \div 2, Scale - 1, Scale}

\* C11: every position checkCardForOrder writes is (1 - similarity)*1e7: a
\* similarity of 1.0 writes 0, a similarity of 0.0 writes 1e7, and over
\* the similarities of [0, 1] a higher similarity gets a lower position.
C11_WrittenPosIsOneMinusSim ==
  \A m \in mutations :
    m.op = "SetPos"
      => LET sim == tryExtractSimilarity(cardTask[m.task].card)
         IN /\ sim # Nil
            /\ m.arg = Scale - sim[1]
            /\ sim[1] = Scale => m.arg = 0
            /\ sim[1] = 0 => m.arg = Scale
            /\ \A s \in SimSamples :
                 /\ s > sim[1] => Scale - s < m.arg
                 /\ s < sim[1] => Scale - s > m.arg

\* C11's case: a card of similarity 1.0 that was at the far end of the
\* list was moved to position 0
C11_Witness ==
  \E m \in mutations :
    /\ m.op = "SetPos" /\ m.ok /\ m.arg = 0
    /\ tryExtractSimilarity(cardTask[m.task].card) = Some(Scale)
    /\ board[m.card].pos = 0

\* the text after the last space of a description that has a space
SpaceIdx(d) == {i \in 1..Len(d) : d[i] = " "}
TokenAfterLastSpace(d) ==
  SubSeq(d, (CHOOSE k \in SpaceIdx(d) : \A j \in SpaceIdx(d) : j <= k) + 1, Len(d))

\* C12: tryExtractSimilarity returns the number parsed from the text after
\* the last space of the description; there is no score when the
\* description has no space or when that text is not a number (which
\* includes a description ending in a space), and then the card is passed
\* over: no call is made on it and nothing panics.
C12_ScoreIsTokenAfterLastSpace ==
  \A t \in DOMAIN cardTask :
    Ordered(t)
      => LET d == cardTask[t].card.desc
             sim == tryExtractSimilarity(cardTask[t].card)
         IN /\ SpaceIdx(d) = {} => sim = Nil
            /\ SpaceIdx(d) # {} => sim = ParseFloat(TokenAfterLastSpace(d))
            /\ (Len(d) > 0 /\ d[Len(d)] = " ") => sim = Nil
            /\ (SpaceIdx(d) # {} /\ \E i \in 1..Len(d) :
                  i > LastIndex(d, " ") + 1 /\ d[i] = "a") => sim = Nil
            /\ d = <<"a", " ", ".", "5">> => sim = Some(Scale \div 2)
            /\ sim = Nil => CallsOf(t) = {} /\ panics = {} /\ proc = "running"

\* C12's case: a description with two spaces whose last token is a number
\* gave a score and the card was moved
C12_Witness ==
  \E t \in DOMAIN cardTask :
    /\ Ordered(t) /\ cardTask[t].pc = "done"
    /\ Cardinality(SpaceIdx(cardTask[t].card.desc)) = 2
    /\ tryExtractSimilarity(cardTask[t].card) = Some(Scale \div 2)
    /\ \E m \in CallsOf(t) : m.op = "SetPos" /\ m.ok

\* the text after the last whitespace character (space or tab) of a
\* description that has one
Whitespace == {" ", "\t"}
WhitespaceIdx(d) == {i \in 1..Len(d) : d[i] \in Whitespace}
LastWhitespace(d) == CHOOSE k \in WhitespaceIdx(d) : \A j \in WhitespaceIdx(d) : j <= k
TokenAfterLastWhitespace(d) == SubSeq(d, LastWhitespace(d) + 1, Len(d))

\* C16 as stated: for every description whose last token follows a
\* whitespace character (a space or a tab) and is a number, the score is
\* that number; the score is absent only when that token is no number.
C16_ScoreIsTokenAfterAnyWhitespace ==
  \A t \in DOMAIN cardTask :
    (Ordered(t) /\ WhitespaceIdx(cardTask[t].card.desc) # {})
      => LET tok == TokenAfterLastWhitespace(cardTask[t].card.desc)
             sim == tryExtractSimilarity(cardTask[t].card)
         IN /\ ParseFloat(tok) # Nil => sim = ParseFloat(tok)
            /\ sim = Nil => ParseFloat(tok) = Nil

\* C16 as amended: only the space delimits the score. A last token that
\* follows a space and is a number is the score; a last token that follows
\* a tab gives no score, number or not, and the card gets no SetPos.
C16_ScoreOnlyAfterSpace ==
  \A t \in DOMAIN cardTask :
    (Ordered(t) /\ WhitespaceIdx(cardTask[t].card.desc) # {})
      => LET d == cardTask[t].card.desc
             tok == TokenAfterLastWhitespace(d)
             sim == tryExtractSimilarity(cardTask[t].card)
         IN /\ d[LastWhitespace(d)] = " " => sim = ParseFloat(tok)
            /\ d[LastWhitespace(d)] = "\t" => sim = Nil /\ CallsOf(t) = {}

\* C16's case: a number that follows a tab was not taken for a score, and
\* the card, far from where that number would put it, was left in place
C16_Witness ==
  \E t \in DOMAIN cardTask :
    /\ Ordered(t) /\ cardTask[t].pc = "done"
    /\ cardTask[t].card.desc = <<"a", "\t", ".", "5">>
    /\ cardTask[t].card.pos = 0
    /\ CallsOf(t) = {}

\* the list ids configured for group g
IdsOf(g) == {cfg[g][i] : i \in 1..Len(cfg[g])}

\* C13: with the archive and the delete group configured together, a
\* goroutine of the archive group only ever calls Archive and one of the
\* delete group only ever calls Delete, so every list goroutine applies one
\* kind of stale action to all its cards, and a card is deleted only if its
\* list is in the delete group, archived only if it is in the archive group.
C13_GroupFixesTheStaleAction ==
  /\ \A m \in mutations :
       /\ GroupOrder[m.task[1]] = "archive" => m.op = "Archive"
       /\ GroupOrder[m.task[1]] = "delete" => m.op = "Delete"
  /\ \A lt \in DOMAIN listTask :
       Cardinality({m.op : m \in {x \in mutations : ListOfTask(x.task) = lt}}) <= 1
  /\ \A c \in CardIds :
       /\ board[c].deleted => ListOf[c] \in IdsOf(2)
       /\ board[c].closed => ListOf[c] \in IdsOf(1)

\* C13's case: both groups are configured, over different lists, and each
\* made a successful call
C13_Witness ==
  /\ IdsOf(1) # {} /\ IdsOf(2) # {} /\ IdsOf(1) \cap IdsOf(2) = {}
  /\ \E m \in mutations : m.op = "Archive" /\ m.ok
  /\ \E m \in mutations : m.op = "Delete" /\ m.ok

\* C14: when every fetch succeeds, the activity resolution gives every card
\* one timestamp and never aborts the run, a card with no action from
\* either source and no DateLastActivity included: a goroutine panics only
\* on a failed fetch, and an evaluated card has a resolved time.
C14_ResolutionNeverAborts ==
  /\ \A p \in panics : p.cause \in FetchCalls
  /\ \A t \in DOMAIN cardTask : Evaluated(t) => cardTask[t].latestActionTime # Nil

\* the history without its actions of a non-qualifying kind
WithoutNonQualifying(actions) == SelectSeq(actions, LAMBDA a : a.type \in QualifyingTypes)

\* C15: actions of a non-qualifying kind in the card's history change
\* nothing: the resolved time and the staleness decision of a card are those
\* of the same card with these actions taken out of its history (checked
\* for the cards that have a DateLastActivity).
C15_NonQualifyingActionsChangeNothing ==
  \A t \in DOMAIN cardTask :
    (Evaluated(t) /\ ~IsNil(cardTask[t].card.dateLastActivity))
      => LET without == ResolvedFor(cardTask[t].card,
                                    WithoutNonQualifying(board[t[3]].actions),
                                    board[t[3]].listActions)
         IN /\ cardTask[t].latestActionTime = without
            /\ CallsOf(t) # {}
                 <=> cardTask[t].now - without[1] > CardInactivityThresholdHours

\* group g names one list id more than once
HasRepeatedId(g) ==
  \E i, j \in 1..Len(cfg[g]) : i # j /\ cfg[g][i] = cfg[g][j]

\* C17 as stated: in every configuration, a repeated id inside one group
\* included, no two card goroutines that run at the same time call a
\* mutation on the same card.
C17_NoTwoRunningTasksMutateOneCard ==
  \A t1, t2 \in DOMAIN cardTask :
    (t1 # t2 /\ t1[3] = t2[3] /\ ~Finished(t1) /\ ~Finished(t2))
      => ~(CallsOf(t1) # {} /\ CallsOf(t2) # {})

\* C17 as amended: a card goroutine calls mutations only on the card it was
\* started for, a card of the list its list goroutine fetched; and two
\* goroutines running at the same time are started for the same card only
\* when they belong to one group that names the card's list more than once.
C17_OneTaskPerCardUnlessIdRepeated ==
  /\ \A m \in mutations :
       /\ m.card = cardTask[m.task].card.id
       /\ ListOf[m.card] = listTask[ListOfTask(m.task)].listId
  /\ \A t1, t2 \in DOMAIN cardTask :
       (t1 # t2 /\ t1[3] = t2[3] /\ ~Finished(t1) /\ ~Finished(t2))
         => t1[1] = t2[1] /\ HasRepeatedId(t1[1])

\* C17's case: two goroutines of one group, started by different list
\* goroutines, have both called a mutation and are both still running
C17_Witness ==
  \E t1, t2 \in DOMAIN cardTask :
    /\ t1[1] = t2[1] /\ t1[2] # t2[2] /\ ~HasRepeatedId(t1[1])
    /\ cardTask[t1].pc = "return" /\ cardTask[t2].pc = "return"
    /\ CallsOf(t1) # {} /\ CallsOf(t2) # {}

\* C18: the list's action history is asked for exactly when the card's own
\* fetch succeeded and returned no action, always after that fetch, and
\* always with the filter createCard for that card's id; with a non-empty
\* own history, or a failed own fetch, the list is never asked.
C18_ListQueriedIffOwnHistoryEmpty ==
  /\ \A t \in DOMAIN cardTask :
       GroupOrder[t[1]] # "reorder"
         => /\ cardTask[t].pc = "GetActions"
                 => ~cardTask[t].listQueried /\ cardTask[t].listArgs = Nil
            /\ cardTask[t].pc = "ListGetActions"
                 => Len(board[t[3]].actions) = 0 /\ ~cardTask[t].listQueried
            /\ cardTask[t].pc \in {"Evaluate", "return", "done"}
                 => (cardTask[t].listQueried <=> Len(board[t[3]].actions) = 0)
            /\ cardTask[t].listQueried
                 <=> cardTask[t].listArgs =
                       Some([filter |-> "createCard", idModels |-> cardTask[t].card.id])
            /\ ~cardTask[t].listQueried => cardTask[t].listArgs = Nil
  /\ \A p \in panics :
       /\ p.cause = "Card.GetActions" => ~cardTask[p.task].listQueried
       /\ p.cause = "List.GetActions" => Len(board[p.task[3]].actions) = 0

\* C18's case: a card with an empty own history was evaluated on the
\* createCard action the list reported for it
C18_Witness ==
  \E t \in DOMAIN cardTask :
    /\ Evaluated(t) /\ cardTask[t].pc = "done"
    /\ Len(board[t[3]].actions) = 0
    /\ cardTask[t].listQueried
    /\ \E i \in DOMAIN cardTask[t].actions : cardTask[t].actions[i].type = "createCard"

\* C19: when no fetch fails the run ends at its normal end, in every
\* configuration and interleaving: the process is not ended by a panic
\* unless a fetch failed, and no WaitGroup counter goes below zero.
C19_NoAbortUnlessAFetchFailed ==
  /\ proc = "exit2" => \E p \in panics : p.cause \in FetchCalls
  /\ \A g \in GroupIdx : wg[g] >= 0
  /\ \A lt \in DOMAIN listTask : listTask[lt].cardWg >= 0

\* the card c fetched by list goroutine lt is stale by the histories the
\* board holds for it, the now that lt read and the threshold
ExpectedStale(lt, c) ==
  LET resolved == ResolvedFor(FetchedCard(c), board[c].actions, board[c].listActions)
  IN /\ resolved # Nil
     /\ listTask[lt].now[1] - resolved[1] > CardInactivityThresholdHours

\* now is read once by the list goroutine, after the cards are fetched and
\* before a card goroutine is started; every card goroutine of the list is
\* given that now, and there is one card goroutine per fetched card
NowReadOncePerList ==
  \A lt \in DOMAIN listTask :
    GroupOrder[lt[1]] # "reorder"
      => /\ listTask[lt].pc \in {"fetchList", "GetCards"}
              => listTask[lt].now = Nil /\ CardTasksOf(lt) = {}
         /\ listTask[lt].pc \in {"wait", "done"}
              => /\ listTask[lt].now # Nil
                 /\ {t[3] : t \in CardTasksOf(lt)} = listTask[lt].cards
                 /\ Cardinality(CardTasksOf(lt)) = Cardinality(listTask[lt].cards)
                 /\ \A t \in CardTasksOf(lt) : cardTask[t].now = listTask[lt].now[1]

\* every card goroutine that decided did so by the fetched histories, the
\* list's now and the threshold alone
DecisionIsFunctionOfInputs ==
  \A t \in DOMAIN cardTask :
    Evaluated(t) => (CallsOf(t) # {} <=> ExpectedStale(ListOfTask(t), t[3]))

\* C20: the outcome of a staleness pass over a list does not depend on the
\* scheduling: now is read once per list goroutine, every card of the list
\* is compared against it by one goroutine, and for fixed successful fetch
\* results the cards the stale action is called on are the same in every
\* interleaving: when the run is over they are all the fetched cards that
\* are stale.
C20_StalePassIsSchedulingIndependent ==
  /\ NowReadOncePerList
  /\ DecisionIsFunctionOfInputs
  /\ \A lt \in DOMAIN listTask :
       (/\ GroupOrder[lt[1]] # "reorder"
        /\ listTask[lt].pc \in {"wait", "done"}
        /\ proc # "running"
        /\ \A p \in panics : p.cause \notin FetchCalls)
         => \A c \in listTask[lt].cards :
              ExpectedStale(lt, c)
                => \E m \in mutations : m.task = <<lt[1], lt[2], c>> /\ m.card = c

====
